---------------------------- MODULE Spec2Model ----------------------------
(***************************************************************************)
(* Model of src/models.py: the pydantic model                              *)
(*                                                                         *)
(*     class Todo(BaseModel):                                              *)
(*         id: int                                                         *)
(*         item: str                                                       *)
(*                                                                         *)
(* The class body declares two required fields (no defaults) and no model  *)
(* configuration, so the behaviour of BaseModel's defaults applies:        *)
(* validation with lax coercion on construction, extra keys ignored, no    *)
(* validation on attribute assignment, and instances that are not frozen.  *)
(* The source does not pin the pydantic major version, and the two majors  *)
(* differ in what a str field coerces, so the major is a choice made once  *)
(* in the initial state.                                                   *)
(***************************************************************************)
EXTENDS Integers, Sequences, FiniteSets, TLC

----------------------------------------------------------------------------
(* Bounds of the explored input space. *)

\* integers range over -MaxInt .. MaxInt
MaxInt == 1

\* texts are character sequences of length at most MaxLen
MaxLen == 2

\* at most MaxRecords Todo objects are alive at once
MaxRecords == 2

----------------------------------------------------------------------------
(* Python values that can appear in an input mapping or in a field.         *)

IntV(n) == [t |-> "int", n |-> n, s |-> <<>>]
StrV(s) == [t |-> "str", n |-> 0, s |-> s]
NoneV == [t |-> "none", n |-> 0, s |-> <<>>]

Alphabet == {"1", "-", "a"}

Digits == {"0", "1", "2", "3", "4", "5", "6", "7", "8", "9"}

DigitVal(c) ==
    CASE c = "0" -> 0 [] c = "1" -> 1 [] c = "2" -> 2 [] c = "3" -> 3
      [] c = "4" -> 4 [] c = "5" -> 5 [] c = "6" -> 6 [] c = "7" -> 7
      [] c = "8" -> 8 [] c = "9" -> 9

DigitChar(d) ==
    CASE d = 0 -> "0" [] d = 1 -> "1" [] d = 2 -> "2" [] d = 3 -> "3"
      [] d = 4 -> "4" [] d = 5 -> "5" [] d = 6 -> "6" [] d = 7 -> "7"
      [] d = 8 -> "8" [] d = 9 -> "9"

Texts == UNION {[1..k -> Alphabet] : k \in 0..MaxLen}

Values == {IntV(n) : n \in (0 - MaxInt)..MaxInt} \cup {StrV(s) : s \in Texts} \cup {NoneV}

----------------------------------------------------------------------------
(* Field coercion: what the validators of an `int` and a `str` field do.    *)

Ok(v) == [ok |-> TRUE, v |-> v]
Fail == [ok |-> FALSE, v |-> NoneV]

\* int("...") on the digits of a numeral, most significant first
RECURSIVE ParseDigits(_, _)
ParseDigits(s, acc) ==
    IF s = <<>> THEN Ok(IntV(acc))
    ELSE IF Head(s) \notin Digits THEN Fail
    ELSE ParseDigits(Tail(s), acc * 10 + DigitVal(Head(s)))

\* int(s) for a str s: an optional sign followed by at least one digit
str_to_int(s) ==
    IF s = <<>> THEN Fail
    ELSE IF Head(s) = "-"
         THEN IF Tail(s) = <<>> THEN Fail
              ELSE LET p == ParseDigits(Tail(s), 0)
                   IN  IF p.ok THEN Ok(IntV(0 - p.v.n)) ELSE Fail
         ELSE ParseDigits(s, 0)

\* the decimal digits of a natural number
RECURSIVE NatDigits(_)
NatDigits(n) ==
    IF n < 10 THEN <<DigitChar(n)>>
    ELSE NatDigits(n \div 10) \o <<DigitChar(n % 10)>>

\* str(n) for an int n
int_to_str(n) == IF n < 0 THEN <<"-">> \o NatDigits(0 - n) ELSE NatDigits(n)

\* faulty variant: a text that is no numeral becomes 0 instead of an error
int_validator_lenient(v) ==
    CASE v.t = "int" -> Ok(v)
      [] v.t = "str" -> IF str_to_int(v.s).ok THEN str_to_int(v.s) ELSE Ok(IntV(0))
      [] OTHER -> Ok(IntV(0))

\* faulty variant: only positive identifiers are accepted
int_validator_positive(v) ==
    CASE v.t = "int" -> IF v.n > 0 THEN Ok(v) ELSE Fail
      [] v.t = "str" -> str_to_int(v.s)
      [] OTHER -> Fail

\* faulty variant: a numeral is accepted but stored as the text it came as
int_validator_raw(v) ==
    CASE v.t = "int" -> Ok(v)
      [] v.t = "str" -> IF str_to_int(v.s).ok THEN Ok(v) ELSE Fail
      [] OTHER -> Fail

\* validator of the field `id: int`
int_validator(v) ==
    CASE v.t = "int" -> Ok(v)
      [] v.t = "str" -> str_to_int(v.s)
      [] OTHER -> Fail

\* validator of the field `item: str`; pydantic 1 turns a number into its
\* text, pydantic 2 rejects it
str_validator(v, major) ==
    CASE v.t = "str" -> Ok(v)
      [] v.t = "int" -> IF major = 1 THEN Ok(StrV(int_to_str(v.n))) ELSE Fail
      [] OTHER -> Fail

----------------------------------------------------------------------------
(* The class Todo.                                                          *)

Fields == {"id", "item"}

\* what a failed construction leaves behind: no object
NoRecord == [k \in {} |-> NoneV]

\* faulty variant: the two annotations exchanged (id: str, item: int)
validate_field_swapped(f, x, major) ==
    IF f \notin DOMAIN x THEN Fail
    ELSE IF f = "id" THEN str_validator(x[f], major)
    ELSE int_validator(x[f])

\* faulty variant: the fields declared with a default of None
validate_field_optional(f, x, major) ==
    IF f \notin DOMAIN x THEN Ok(NoneV)
    ELSE IF f = "id" THEN int_validator(x[f])
    ELSE str_validator(x[f], major)

\* validation result of one declared field against the input mapping:
\* a field without default is required
validate_field(f, x, major) ==
    IF f \notin DOMAIN x THEN Fail
    ELSE IF f = "id" THEN int_validator(x[f])
    ELSE str_validator(x[f], major)

\* faulty variant: the object is built from the raw values without validation
Todo_unvalidated(x, major) ==
    [error |-> "none",
     obj |-> [f \in Fields |-> IF f \in DOMAIN x THEN x[f] ELSE NoneV]]

\* faulty variant: keys that are not fields are an error (extra = forbid)
Todo_forbid(x, major) ==
    LET r == [f \in Fields |-> validate_field(f, x, major)]
    IN  IF (\A f \in Fields : r[f].ok) /\ DOMAIN x \subseteq Fields
        THEN [error |-> "none", obj |-> [f \in Fields |-> r[f].v]]
        ELSE [error |-> "ValidationError", obj |-> NoRecord]

\* Todo(**x): every declared field is validated; keys that are not fields
\* are dropped; any field error raises ValidationError and no object exists
Todo(x, major) ==
    LET r == [f \in Fields |-> validate_field(f, x, major)]
    IN  IF \A f \in Fields : r[f].ok
        THEN [error |-> "none", obj |-> [f \in Fields |-> r[f].v]]
        ELSE [error |-> "ValidationError", obj |-> NoRecord]

\* faulty variant: numbers are rendered as text in the dump
Serialize_text(obj) ==
    [f \in DOMAIN obj |-> IF obj[f].t = "int" THEN StrV(int_to_str(obj[f].n)) ELSE obj[f]]

\* todo.dict() / todo.model_dump(): the mapping of the object's fields
Serialize(obj) == [f \in DOMAIN obj |-> obj[f]]

\* faulty variant: objects compared by identifier only
Equals_id(a, b) == Serialize(a)["id"] = Serialize(b)["id"]

\* a == b on two Todo objects: the field mappings are compared
Equals(a, b) == Serialize(a) = Serialize(b)

----------------------------------------------------------------------------
(* State.                                                                   *)

VARIABLES
    pydanticMajor,  \* major version of the installed pydantic: 1 or 2
    x,              \* the input mapping handed to Todo(**x)
    pc,             \* position of the caller in construct / dump / construct
    todo,           \* the object Todo(**x) returned, NoRecord if it raised
    error,          \* what Todo(**x) raised: "none" or "ValidationError"
    dumped,         \* the mapping the object was serialized to
    todo2,          \* the object Todo(**dumped) returned
    error2,         \* what Todo(**dumped) raised
    heap,           \* the Todo objects alive, by identity (position)
    op,             \* the last operation performed on the heap
    args,           \* the objects (and field) the last operation was given
    result          \* what the last operation returned or raised

lawVars == <<x, pc, todo, error, dumped, todo2, error2>>
heapVars == <<heap, op, args, result>>
vars == <<pydanticMajor, x, pc, todo, error, dumped, todo2, error2, heap, op, args, result>>

Majors == {1, 2}

\* input mappings over the two field names
FieldInputs == UNION {[D -> Values] : D \in SUBSET Fields}

\* the same mappings with one more key that is not a field
WithExtra(m, v) == [k \in DOMAIN m \cup {"extra"} |-> IF k = "extra" THEN v ELSE m[k]]

Inputs == FieldInputs \cup {WithExtra(m, v) : m \in FieldInputs, v \in Values}

----------------------------------------------------------------------------
(* One caller: construct from x, serialize, construct again from the dump.  *)

InitLaw ==
    /\ pydanticMajor \in Majors
    /\ x \in Inputs
    /\ pc = "start"
    /\ todo = NoRecord
    /\ error = "none"
    /\ dumped = NoRecord
    /\ todo2 = NoRecord
    /\ error2 = "none"
    /\ heap = <<>>
    /\ op = "none"
    /\ args = <<>>
    /\ result = NoneV

\* todo = Todo(**x)
Construct ==
    /\ pc = "start"
    /\ LET r == Todo(x, pydanticMajor)
       IN  /\ todo' = r.obj
           /\ error' = r.error
           /\ pc' = IF r.error = "none" THEN "constructed" ELSE "raised"
    /\ UNCHANGED <<pydanticMajor, x, dumped, todo2, error2, heapVars>>

\* dumped = todo.dict()
Dump ==
    /\ pc = "constructed"
    /\ dumped' = Serialize(todo)
    /\ pc' = "dumped"
    /\ UNCHANGED <<pydanticMajor, x, todo, error, todo2, error2, heapVars>>

\* todo2 = Todo(**dumped)
Reconstruct ==
    /\ pc = "dumped"
    /\ LET r == Todo(dumped, pydanticMajor)
       IN  /\ todo2' = r.obj
           /\ error2' = r.error
    /\ pc' = "reconstructed"
    /\ UNCHANGED <<pydanticMajor, x, todo, error, dumped, heapVars>>

NextLaw == Construct \/ Dump \/ Reconstruct

SpecLaw == InitLaw /\ [][NextLaw]_vars

----------------------------------------------------------------------------
(* Many objects: the operations a holder of Todo objects can perform.       *)

\* the values callers pass to the constructor in the object model: two
\* integers, a numeral, a text that is no numeral, and None
SampleValues == {IntV(0), IntV(1), StrV(<<"1">>), StrV(<<"a">>), NoneV}

\* the values callers assign to a field: an integer, a text and None
AssignValues == {IntV(0), StrV(<<"a">>), NoneV}

SampleInputs == UNION {[D -> SampleValues] : D \in SUBSET Fields}

Init ==
    /\ pydanticMajor \in Majors
    /\ x = NoRecord
    /\ pc = "idle"
    /\ todo = NoRecord
    /\ error = "none"
    /\ dumped = NoRecord
    /\ todo2 = NoRecord
    /\ error2 = "none"
    /\ heap = <<>>
    /\ op = "none"
    /\ args = <<>>
    /\ result = NoneV

\* Todo(**xin): a new object on success, nothing on ValidationError
NewTodo(xin) ==
    /\ Len(heap) < MaxRecords
    /\ LET r == Todo(xin, pydanticMajor)
       IN  /\ heap' = IF r.error = "none" THEN Append(heap, r.obj) ELSE heap
           /\ result' = r.error
    /\ op' = "Todo"
    /\ args' = <<>>
    /\ UNCHANGED <<pydanticMajor, lawVars>>

\* faulty variant: dumping moves the item out of the object
DictOf_destructive(i) ==
    /\ result' = Serialize(heap[i])
    /\ heap' = [heap EXCEPT ![i]["item"] = NoneV]
    /\ op' = "dict"
    /\ args' = <<i>>
    /\ UNCHANGED <<pydanticMajor, lawVars>>

\* heap[i].dict()
DictOf(i) ==
    /\ result' = Serialize(heap[i])
    /\ op' = "dict"
    /\ args' = <<i>>
    /\ UNCHANGED <<pydanticMajor, lawVars, heap>>

\* heap[i] == heap[j]
Compare(i, j) ==
    /\ result' = Equals(heap[i], heap[j])
    /\ op' = "eq"
    /\ args' = <<i, j>>
    /\ UNCHANGED <<pydanticMajor, lawVars, heap>>

\* heap[i].f
GetAttr(i, f) ==
    /\ result' = heap[i][f]
    /\ op' = "getattr"
    /\ args' = <<i>>
    /\ UNCHANGED <<pydanticMajor, lawVars, heap>>

\* heap[i].f = v: the model is not frozen and does not validate assignment,
\* so the value is stored as given
SetAttr(i, f, v) ==
    /\ heap' = [heap EXCEPT ![i][f] = v]
    /\ result' = "none"
    /\ op' = "setattr"
    /\ args' = <<i>>
    /\ UNCHANGED <<pydanticMajor, lawVars>>

Next ==
    \/ \E xin \in SampleInputs : NewTodo(xin)
    \/ \E i \in DOMAIN heap : DictOf(i)
    \/ \E i, j \in DOMAIN heap : Compare(i, j)
    \/ \E i \in DOMAIN heap, f \in Fields : GetAttr(i, f)
    \/ \E i \in DOMAIN heap, f \in Fields, v \in AssignValues : SetAttr(i, f, v)

Spec == Init /\ [][Next]_vars

----------------------------------------------------------------------------
(* Vocabulary of the properties.                                            *)

IsInt(v) == v.t = "int"
IsText(v) == v.t = "str"

\* a text that reads as a decimal integer: optional sign, then digits only
IsNumeral(s) ==
    /\ Len(s) >= 1
    /\ LET body == IF s[1] = "-" THEN Tail(s) ELSE s
       IN  /\ Len(body) >= 1
           /\ \A k \in DOMAIN body : body[k] \in Digits

IntCoercible(v) == IsInt(v) \/ (IsText(v) /\ IsNumeral(v.s))
TextCoercible(v, major) == IsText(v) \/ (IsInt(v) /\ major = 1)

\* exactly the keys id and item, an integer and a text
Canonical(m) == DOMAIN m = Fields /\ IsInt(m["id"]) /\ IsText(m["item"])

\* both fields present, id an integer and item a text
WellTyped(r) == DOMAIN r = Fields /\ IsInt(r["id"]) /\ IsText(r["item"])

\* the caller has called Todo(**x)
Called == pc \in {"constructed", "raised", "dumped", "reconstructed"}
Dumped == pc \in {"dumped", "reconstructed"}

----------------------------------------------------------------------------
(* Properties of construction and serialization (SpecLaw).                  *)

\* C1: for every integer i and text s, Todo(id=i, item=s) raises nothing and
\* returns an object whose id is i and whose item is s.
C1_ConstructKeepsCanonical ==
    (Called /\ Canonical(x)) =>
        (error = "none" /\ todo["id"] = x["id"] /\ todo["item"] = x["item"])

C1_Witness ==
    /\ pc = "constructed"
    /\ x = [id |-> IntV(1), item |-> StrV(<<"a", "1">>)]

\* C2: when the input lacks the key id or the key item, construction raises
\* ValidationError and no object results; there are no defaults.
C2_MissingKeyRaises ==
    (Called /\ ~(Fields \subseteq DOMAIN x)) =>
        (error = "ValidationError" /\ todo = NoRecord /\ pc = "raised")

C2_Witness ==
    /\ pc = "raised"
    /\ x = [item |-> StrV(<<"a">>)]

\* C3: when both keys are present but id cannot be coerced to an integer or
\* item cannot be coerced to text, construction raises ValidationError and
\* no object results.
C3_UncoercibleRaises ==
    (/\ Called
     /\ Fields \subseteq DOMAIN x
     /\ (~IntCoercible(x["id"]) \/ ~TextCoercible(x["item"], pydanticMajor))) =>
        (error = "ValidationError" /\ todo = NoRecord /\ pc = "raised")

C3_Witness ==
    /\ pc = "raised"
    /\ x = [id |-> StrV(<<"a">>), item |-> StrV(<<"a", "1">>)]

\* C4: for an input with exactly the keys id and item in canonical form, the
\* dump of the constructed object equals the input.
C4_RoundTrip == (Dumped /\ Canonical(x)) => dumped = x

C4_Witness ==
    /\ pc = "dumped"
    /\ x = [id |-> IntV(1), item |-> StrV(<<"a", "a">>)]
    /\ dumped = x

\* C8: construction constrains only presence and type: the empty text as
\* item and zero or negative integers as id are accepted and stored unchanged.
C8_NoValueConstraint ==
    (/\ Called
     /\ Canonical(x)
     /\ (x["item"].s = <<>> \/ x["id"].n <= 0)) =>
        (pc # "raised" /\ error = "none" /\ todo = [id |-> x["id"], item |-> x["item"]])

C8_Witness ==
    /\ pc = "constructed"
    /\ x = [id |-> IntV(-1), item |-> StrV(<<>>)]

\* C9: normalisation is idempotent: whenever construction succeeds, also on
\* a non-canonical input, constructing again from the dump succeeds and
\* gives an equal object, and the dump holds id as an integer and item as
\* a text.
C9_NormalisationIdempotent ==
    /\ Dumped => (Fields \subseteq DOMAIN dumped /\ IsInt(dumped["id"]) /\ IsText(dumped["item"]))
    /\ pc = "reconstructed" => (error2 = "none" /\ Equals(todo2, todo))

C9_Witness ==
    /\ pc = "reconstructed"
    /\ x = [id |-> StrV(<<"-", "1">>), item |-> StrV(<<"a">>)]
    /\ todo2["id"] = IntV(-1)

\* the input restricted to the declared fields
Restrict(m) == [k \in DOMAIN m \cap Fields |-> m[k]]

\* C10: keys other than id and item are ignored: with valid id and item plus
\* an extra key, construction succeeds, gives the object the input without
\* the extra key gives, and the dump has exactly the keys id and item.
C10_ExtraKeysIgnored ==
    (/\ Called
     /\ ~(DOMAIN x \subseteq Fields)
     /\ Fields \subseteq DOMAIN x
     /\ IntCoercible(x["id"])
     /\ TextCoercible(x["item"], pydanticMajor)) =>
        /\ error = "none"
        /\ pc # "raised"
        /\ todo = Todo(Restrict(x), pydanticMajor).obj
        /\ Dumped => DOMAIN dumped = Fields

C10_Witness ==
    /\ pc = "dumped"
    /\ x = [id |-> StrV(<<"1">>), item |-> StrV(<<"a">>), extra |-> NoneV]
    /\ DOMAIN dumped = Fields

----------------------------------------------------------------------------
(* Properties of the objects (Spec).                                        *)

\* C5: equality is value equality on both fields: a == b exactly when
\* a.id == b.id and a.item == b.item.
C5_EqualityIsFieldwise ==
    op = "eq" =>
        (result <=> (/\ heap[args[1]]["id"] = heap[args[2]]["id"]
                     /\ heap[args[1]]["item"] = heap[args[2]]["item"]))

C5_Witness ==
    /\ op = "eq"
    /\ args[1] # args[2]
    /\ result = TRUE

\* C6 as claimed: once an object exists, no operation changes its id or
\* its item.
C6_Immutable == [][\A i \in DOMAIN heap : heap'[i] = heap[i]]_vars

\* C6 as amended: no operation other than assignment to a field changes
\* the id or the item of an existing object.
C6_OnlyAssignmentMutates ==
    [][op' # "setattr" => \A i \in DOMAIN heap : heap'[i] = heap[i]]_vars

C6_Witness ==
    /\ op = "dict"
    /\ Len(heap) >= 2
    /\ result = Serialize(heap[args[1]])

\* C7 as claimed: in every reachable state every object has both fields
\* present, id an integer and item a text.
C7_AllWellTyped == \A i \in DOMAIN heap : WellTyped(heap[i])

\* C7 as amended: a failed construction leaves the objects unchanged, a
\* successful one adds exactly one object with both fields present, id an
\* integer and item a text, and an object stays so until one of its fields
\* is assigned.
C7_ConstructionAtomic ==
    [][/\ (op' = "Todo" /\ result' = "ValidationError") => heap' = heap
       /\ (op' = "Todo" /\ result' = "none") =>
              /\ Len(heap') = Len(heap) + 1
              /\ SubSeq(heap', 1, Len(heap)) = heap
              /\ WellTyped(heap'[Len(heap')])
       /\ op' # "setattr" =>
              \A i \in DOMAIN heap : WellTyped(heap[i]) => WellTyped(heap'[i])
      ]_vars

C7_Witness ==
    /\ op = "Todo"
    /\ result = "ValidationError"
    /\ Len(heap) >= 1
    /\ \A i \in DOMAIN heap : WellTyped(heap[i])

============================================================================
